---- MODULE Spec2Model ----
(***************************************************************************)
(* Onion-routing workshop network: users (sendMessage / message), onion    *)
(* routers (message) and the crypto helpers they call.                     *)
(*                                                                         *)
(* Strings are sequences of UTF-16 code units, byte arrays are sequences   *)
(* of 0..255.  The Web Crypto primitives (RSA-OAEP, AES-CBC) are library   *)
(* code; they are modelled by small keyed permutations that keep what the  *)
(* repository relies on: output lengths, the OAEP and PKCS#7 structure     *)
(* checks that make a decryption throw, the IV prefix and the CBC chaining.*)
(***************************************************************************)
EXTENDS Integers, Sequences, FiniteSets, TLC

(***************************************************************************)
(* Generic helpers                                                         *)
(***************************************************************************)
Min(a, b) == IF a <= b THEN a ELSE b

\* Concatenation of the sequences f[lo..hi], by halving.
RECURSIVE FlattenRange(_, _, _)
FlattenRange(f, lo, hi) ==
  IF lo > hi THEN <<>>
  ELSE IF lo = hi THEN f[lo]
  ELSE LET mid == (lo + hi) \div 2
       IN  FlattenRange(f, lo, mid) \o FlattenRange(f, mid + 1, hi)

Flatten(f) == FlattenRange(f, 1, Len(f))

\* A fully evaluated copy of a sequence.
Tup(s) == SubSeq(s, 1, Len(s))

\* const v = ...; F(v): the value is computed once.
Bind(v, F(_)) == F(v)

RECURSIVE XorBits(_, _, _)
XorBits(a, b, k) ==
  IF k = 0 THEN 0
  ELSE (((a % 2) + (b % 2)) % 2) + 2 * XorBits(a \div 2, b \div 2, k - 1)

XorTable == [a \in 0..255 |-> [b \in 0..255 |-> XorBits(a, b, 8)]]

Xor(a, b) == XorTable[a][b]

\* Results of operations that may throw.
Ok(v) == [ok |-> TRUE, val |-> v]
Throw == [ok |-> FALSE, val |-> <<>>]

(***************************************************************************)
(* TextEncoder / TextDecoder (UTF-8, non-fatal, BOM stripped)              *)
(***************************************************************************)
IsHigh(u) == u >= 55296 /\ u <= 56319
IsLow(u) == u >= 56320 /\ u <= 57343
Replacement == <<239, 191, 189>>

EncodeUnit(s, i) ==
  LET u == s[i]
  IN  IF u < 128 THEN <<u>>
      ELSE IF IsHigh(u) /\ i < Len(s) /\ IsLow(s[i + 1])
      THEN LET cp == 65536 + (u - 55296) * 1024 + (s[i + 1] - 56320)
           IN  << 240 + (cp \div 262144), 128 + ((cp \div 4096) % 64),
                  128 + ((cp \div 64) % 64), 128 + (cp % 64) >>
      ELSE IF IsLow(u) /\ i > 1 /\ IsHigh(s[i - 1]) THEN <<>>
      ELSE IF IsHigh(u) \/ IsLow(u) THEN Replacement
      ELSE IF u < 2048 THEN << 192 + (u \div 64), 128 + (u % 64) >>
      ELSE << 224 + (u \div 4096), 128 + ((u \div 64) % 64), 128 + (u % 64) >>

\* (An ASCII string is encoded unit by unit into the same numbers.)
TextEncode(s) ==
  IF \A i \in 1..Len(s) : s[i] < 128 THEN s
  ELSE Flatten([i \in 1..Len(s) |-> EncodeUnit(s, i)])

\* Number of bytes a lead byte announces (0: not a lead byte).
Need(b) ==
  IF b < 128 THEN 1
  ELSE IF b >= 194 /\ b <= 223 THEN 2
  ELSE IF b >= 224 /\ b <= 239 THEN 3
  ELSE IF b >= 240 /\ b <= 244 THEN 4
  ELSE 0

\* Bounds of the second byte after lead byte b.
Lo2(b) == IF b = 224 THEN 160 ELSE IF b = 240 THEN 144 ELSE 128
Hi2(b) == IF b = 237 THEN 159 ELSE IF b = 244 THEN 143 ELSE 191
IsCont(b) == b >= 128 /\ b <= 191

\* Length of the longest valid prefix of a sequence starting at lead byte j.
ValidLen(b, j) ==
  LET n == Need(b[j])
  IN  IF n <= 1 THEN n
      ELSE IF ~(j + 1 <= Len(b) /\ b[j + 1] >= Lo2(b[j]) /\ b[j + 1] <= Hi2(b[j])) THEN 1
      ELSE IF n = 2 THEN 2
      ELSE IF ~(j + 2 <= Len(b) /\ IsCont(b[j + 2])) THEN 2
      ELSE IF n = 3 THEN 3
      ELSE IF ~(j + 3 <= Len(b) /\ IsCont(b[j + 3])) THEN 3
      ELSE 4

Consumed(b, i) ==
  \E d \in 1..3 : i - d >= 1 /\ Need(b[i - d]) > 1 /\ ValidLen(b, i - d) > d

DecodeAt(b, i) ==
  LET n == Need(b[i])
  IN  IF n = 1 THEN <<b[i]>>
      ELSE IF Consumed(b, i) THEN <<>>
      ELSE IF n = 0 \/ ValidLen(b, i) < n THEN <<65533>>
      ELSE IF n = 2 THEN << (b[i] - 192) * 64 + (b[i + 1] - 128) >>
      ELSE IF n = 3
      THEN LET u == (b[i] - 224) * 4096 + (b[i + 1] - 128) * 64 + (b[i + 2] - 128)
           IN  IF i = 1 /\ u = 65279 THEN <<>> ELSE <<u>>
      ELSE LET cp == (b[i] - 240) * 262144 + (b[i + 1] - 128) * 4096
                     + (b[i + 2] - 128) * 64 + (b[i + 3] - 128) - 65536
           IN  << 55296 + (cp \div 1024), 56320 + (cp % 1024) >>

TextDecode(b) ==
  IF \A i \in 1..Len(b) : b[i] < 128 THEN b
  ELSE Flatten([i \in 1..Len(b) |-> DecodeAt(b, i)])

(***************************************************************************)
(* Base64 (Buffer.toString("base64") / Buffer.from(s, "base64"))           *)
(***************************************************************************)
PadChar == 61

B64Char(v) ==
  IF v < 26 THEN 65 + v
  ELSE IF v < 52 THEN 97 + (v - 26)
  ELSE IF v < 62 THEN 48 + (v - 52)
  ELSE IF v = 62 THEN 43 ELSE 47

\* 6-bit value of a character, -1 when it is not in the alphabet; like Node,
\* the URL-safe '-' and '_' are accepted.
B64Val(c) ==
  IF c >= 65 /\ c <= 90 THEN c - 65
  ELSE IF c >= 97 /\ c <= 122 THEN c - 97 + 26
  ELSE IF c >= 48 /\ c <= 57 THEN c - 48 + 52
  ELSE IF c = 43 \/ c = 45 THEN 62
  ELSE IF c = 47 \/ c = 95 THEN 63
  ELSE 0 - 1

arrayBufferToBase64(buffer) ==
  LET n == Len(buffer)
      at(k) == IF k <= n THEN buffer[k] ELSE 0
  IN  Tup([c \in 1..(4 * ((n + 2) \div 3)) |->
        LET g == (c - 1) \div 4
            p == (c - 1) % 4
            b0 == at(3 * g + 1)
            b1 == at(3 * g + 2)
            b2 == at(3 * g + 3)
        IN  IF p = 0 THEN B64Char(b0 \div 4)
            ELSE IF p = 1 THEN B64Char((b0 % 4) * 16 + (b1 \div 16))
            ELSE IF p = 2
            THEN IF 3 * g + 2 > n THEN PadChar ELSE B64Char((b1 % 16) * 4 + (b2 \div 64))
            ELSE IF 3 * g + 3 > n THEN PadChar ELSE B64Char(b2 % 64)])

\* Node skips characters outside the alphabet and stops at the first '='.
B64Stop(base64) ==
  IF \A i \in 1..Len(base64) : base64[i] # PadChar THEN Len(base64) + 1
  ELSE CHOOSE i \in 1..Len(base64) :
         base64[i] = PadChar /\ \A j \in 1..(i - 1) : base64[j] # PadChar

B64Vals(base64, stop) ==
  IF \A i \in 1..(stop - 1) : B64Val(base64[i]) >= 0
  THEN Tup([i \in 1..(stop - 1) |-> B64Val(base64[i])])
  ELSE Flatten([i \in 1..(stop - 1) |->
         IF B64Val(base64[i]) >= 0 THEN <<B64Val(base64[i])>> ELSE <<>>])

B64Bytes(vals) ==
  LET at(k) == IF k <= Len(vals) THEN vals[k] ELSE 0
  IN  Tup([k \in 1..((Len(vals) * 3) \div 4) |->
        LET g == (k - 1) \div 3
            r == (k - 1) % 3
        IN  IF r = 0 THEN at(4 * g + 1) * 4 + (at(4 * g + 2) \div 16)
            ELSE IF r = 1 THEN (at(4 * g + 2) % 16) * 16 + (at(4 * g + 3) \div 4)
            ELSE (at(4 * g + 3) % 4) * 64 + at(4 * g + 4)])

base64ToArrayBuffer(base64) == B64Bytes(B64Vals(base64, B64Stop(base64)))

(***************************************************************************)
(* Program constants                                                       *)
(***************************************************************************)
KeyBlobLen == 344        \* routeur: message.substring(0, 344)
AddrLen == 10            \* padStart(10, "0") / substring(0, 10)
IvLen == 16              \* symEncrypt: new Uint8Array(16); symDecrypt: slice(0, 16)
SymKeyBits == 256        \* createRandomSymmetricKey: length: 256
ModulusLength == 2048    \* generateKeyPairSync("rsa", { modulusLength: 2048 })
HashBits == 256          \* RSA-OAEP with hash SHA-256
CircuitLen == 3          \* sélectionnerNœudsAléatoires(nodes, 3)

\* config.ts is not part of the sources; the usual values of the workshop.
BASE_ONION_ROUTER_PORT == 4000
BASE_USER_PORT == 3000

\* Faulty variant: the size of a modulus of 4096 bits.
RsaBytes_large == ModulusLength \div 4

RsaBytes == ModulusLength \div 8
HashLen == HashBits \div 8

(***************************************************************************)
(* AES-CBC (webcrypto.subtle, "AES-CBC"): PKCS#7 padding, CBC chaining     *)
(* c[i] = E(p[i] xor c[i-1]) with c[0] = iv.  The block cipher E is a      *)
(* keyed bytewise permutation.                                             *)
(***************************************************************************)
KeySchedule(raw) ==
  [b \in 1..IvLen |-> Xor(raw[b], raw[((b + IvLen - 1) % Len(raw)) + 1])]

Pkcs7Pad(p) ==
  LET padLen == IvLen - (Len(p) % IvLen)
  IN  p \o [i \in 1..padLen |-> padLen]

\* Prefix xor, block by block, of blocks lo..hi of p (each xored with ks).
RECURSIVE CbcScan(_, _, _, _)
CbcScan(p, ks, lo, hi) ==
  IF lo = hi
  THEN Tup([b \in 1..IvLen |-> Xor(p[(lo - 1) * IvLen + b], ks[b])])
  ELSE LET mid == (lo + hi) \div 2
           L == CbcScan(p, ks, lo, mid)
           R == CbcScan(p, ks, mid + 1, hi)
           base == Len(L) - IvLen
       IN  L \o Tup([k \in 1..Len(R) |-> Xor(R[k], L[base + ((k - 1) % IvLen) + 1])])

AesCbcEncrypt(raw, iv, plain) ==
  Bind(Pkcs7Pad(plain), LAMBDA p :
  Bind(CbcScan(p, KeySchedule(raw), 1, Len(p) \div IvLen), LAMBDA x :
    Tup([k \in 1..Len(x) |-> Xor(x[k], iv[((k - 1) % IvLen) + 1])])))

Unpad(p) ==
  IF p[Len(p)] < 1 \/ p[Len(p)] > IvLen
     \/ \E k \in (Len(p) - p[Len(p)] + 1)..Len(p) : p[k] # p[Len(p)]
  THEN Throw
  ELSE Ok(SubSeq(p, 1, Len(p) - p[Len(p)]))

AesCbcDecrypt(raw, iv, data) ==
  IF Len(iv) # IvLen \/ Len(data) = 0 \/ Len(data) % IvLen # 0 THEN Throw
  ELSE Bind(KeySchedule(raw), LAMBDA ks :
         Unpad(Tup([k \in 1..Len(data) |->
                 Xor(Xor(data[k], ks[((k - 1) % IvLen) + 1]),
                     IF k <= IvLen THEN iv[k] ELSE data[k - IvLen])])))

(***************************************************************************)
(* RSA-OAEP (webcrypto.subtle, "RSA-OAEP", SHA-256, 2048 bits): the        *)
(* encoded message 00 || seed || lHash || 00.. || 01 || M, then a keyed    *)
(* bytewise permutation that only the matching private key inverts.        *)
(***************************************************************************)
LabelHash == [i \in 1..HashLen |-> (i * 29 + 7) % 256]
OaepSeed(r) == [i \in 1..HashLen |-> (r * 53 + i * 17) % 256]
RsaStream(kp, i) == (kp * (2 * i + 1)) % 256

OaepEncrypt(kp, r, m) ==
  IF Len(m) > RsaBytes - 2 * HashLen - 2 THEN Throw
  ELSE Bind(<<0>> \o OaepSeed(r) \o LabelHash
              \o [i \in 1..(RsaBytes - 2 * HashLen - 2 - Len(m)) |-> 0]
              \o <<1>> \o m,
            LAMBDA em : Ok(Tup([i \in 1..RsaBytes |-> (em[i] + RsaStream(kp, i)) % 256])))

\* Checks of the encoded message em: leading 00, label hash, 00.. 01 separator.
OaepUnpad(em) ==
  IF em[1] # 0 \/ SubSeq(em, HashLen + 2, 2 * HashLen + 1) # LabelHash
     \/ \A i \in (2 * HashLen + 2)..RsaBytes : em[i] = 0
  THEN Throw
  ELSE Bind(CHOOSE i \in (2 * HashLen + 2)..RsaBytes :
              em[i] # 0 /\ \A j \in (2 * HashLen + 2)..(i - 1) : em[j] = 0,
            LAMBDA sep : IF em[sep] # 1 THEN Throw ELSE Ok(SubSeq(em, sep + 1, RsaBytes)))

OaepDecrypt(kp, c) ==
  IF Len(c) # RsaBytes THEN Throw
  ELSE OaepUnpad(Tup([i \in 1..RsaBytes |-> (c[i] + 256 - RsaStream(kp, i)) % 256]))

\* DER encodings of the keys of pair kp (spki / pkcs8).
SpkiDer(kp) == <<48, 130, 1, kp>>
Pkcs8Der(kp) == <<48, 130, 4, kp>>

exportPubKey(kp) == arrayBufferToBase64(SpkiDer(kp))
exportPrvKey(kp) == arrayBufferToBase64(Pkcs8Der(kp))

importPubKey(chaineDeLaCle) ==
  Bind(base64ToArrayBuffer(chaineDeLaCle), LAMBDA der :
    IF Len(der) = 4 /\ SubSeq(der, 1, 3) = <<48, 130, 1>> THEN Ok(der[4]) ELSE Throw)

importPrvKey(chaineDeLaCle) ==
  Bind(base64ToArrayBuffer(chaineDeLaCle), LAMBDA der :
    IF Len(der) = 4 /\ SubSeq(der, 1, 3) = <<48, 130, 4>> THEN Ok(der[4]) ELSE Throw)

rsaEncrypt(donneesBase64, chaineClePublique, r) ==
  Bind(importPubKey(chaineClePublique), LAMBDA clePublique :
    IF ~clePublique.ok THEN Throw
    ELSE Bind(OaepEncrypt(clePublique.val, r, TextEncode(donneesBase64)),
              LAMBDA donneesChiffrees :
                IF ~donneesChiffrees.ok THEN Throw
                ELSE Ok(arrayBufferToBase64(donneesChiffrees.val))))

rsaDecrypt(donnees, clePrivee) ==
  Bind(OaepDecrypt(clePrivee, base64ToArrayBuffer(donnees)), LAMBDA donneesDechiffrees :
    IF ~donneesDechiffrees.ok THEN Throw ELSE Ok(TextDecode(donneesDechiffrees.val)))

\* r-th outcome of the random generators.
createRandomSymmetricKey(r) == [i \in 1..(SymKeyBits \div 8) |-> (r * 37 + i * 11) % 256]
RandomIv(r) == [i \in 1..IvLen |-> (r * 71 + i * 5) % 256]

exportSymKey(cle) == arrayBufferToBase64(cle)

importSymKey(chaineDeLaCle) ==
  Bind(base64ToArrayBuffer(chaineDeLaCle), LAMBDA donneesCle :
    IF Len(donneesCle) \in {16, 24, 32} THEN Ok(donneesCle) ELSE Throw)

symEncrypt(cle, donnees, r) ==
  Bind(RandomIv(r), LAMBDA vecteurInitialisation :
    arrayBufferToBase64(
      vecteurInitialisation
      \o AesCbcEncrypt(cle, vecteurInitialisation, TextEncode(donnees))))

symDecrypt(chaineDeLaCle, donneesChiffrees) ==
  Bind(importSymKey(chaineDeLaCle), LAMBDA cle :
    IF ~cle.ok THEN Throw
    ELSE Bind(base64ToArrayBuffer(donneesChiffrees), LAMBDA tamponBinaire :
         Bind(AesCbcDecrypt(cle.val,
                            SubSeq(tamponBinaire, 1, Min(IvLen, Len(tamponBinaire))),
                            SubSeq(tamponBinaire, IvLen + 1, Len(tamponBinaire))),
              LAMBDA donneesDechiffrees :
                IF ~donneesDechiffrees.ok THEN Throw
                ELSE Ok(TextDecode(donneesDechiffrees.val)))))

(***************************************************************************)
(* Bounds of the model                                                     *)
(***************************************************************************)
NumNodes == 4            \* onion routers started and registered
NumUsers == 2            \* users started
NumDraws == 1            \* outcomes of the key / IV / seed generators per send
TamperSpan == 1          \* bytes after the last address byte that may be altered

Relays == 0..(NumNodes - 1)
Users == 0..(NumUsers - 1)

\* Message texts: "", "hi", "é", a surrogate pair, an unpaired surrogate.
Messages == { <<>>, <<104, 105>>, <<233>>, <<55357, 56832>>, <<55296>> }

WellFormed(s) ==
  \A i \in 1..Len(s) :
      /\ IsHigh(s[i]) => (i < Len(s) /\ IsLow(s[i + 1]))
      /\ IsLow(s[i]) => (i > 1 /\ IsHigh(s[i - 1]))

\* null / NaN of the diagnostic variables.
NullStr == << 0 - 1 >>
\* undefined (a body without a message member); any value that is not a string
\* behaves alike in the handlers.
Undefined == << 0 - 2 >>
IsString(v) == v # NullStr /\ v # Undefined
NaN == 0 - 2000000000
NullInt == NaN - 1

(***************************************************************************)
(* Addresses: `${port}`.padStart(10, "0") and parseInt(s.substring(0,10))  *)
(***************************************************************************)
RECURSIVE DecimalString(_)
DecimalString(n) ==
  IF n < 10 THEN << 48 + n >> ELSE Append(DecimalString(n \div 10), 48 + (n % 10))

padStart(s, targetLength, fill) ==
  IF Len(s) >= targetLength THEN s
  ELSE [i \in 1..(targetLength - Len(s)) |-> fill] \o s

IsDigit(c) == c >= 48 /\ c <= 57
IsSpace(c) ==
  c \in {9, 10, 11, 12, 13, 32, 160, 5760, 8232, 8233, 8239, 8287, 12288, 65279}
  \/ (c >= 8192 /\ c <= 8202)

RECURSIVE DigitsValue(_, _, _)
DigitsValue(s, i, acc) ==
  IF i > Len(s) \/ ~IsDigit(s[i]) THEN acc
  ELSE DigitsValue(s, i + 1, acc * 10 + (s[i] - 48))

RECURSIVE SkipSpace(_, _)
SkipSpace(s, i) == IF i <= Len(s) /\ IsSpace(s[i]) THEN SkipSpace(s, i + 1) ELSE i

\* parseInt(s, 10): leading white space, a sign, then the longest run of digits.
parseInt(s) ==
  LET i == SkipSpace(s, 1)
      neg == i <= Len(s) /\ s[i] = 45
      j == IF i <= Len(s) /\ s[i] \in {43, 45} THEN i + 1 ELSE i
  IN  IF j > Len(s) \/ ~IsDigit(s[j]) THEN NaN
      ELSE IF neg THEN 0 - DigitsValue(s, j, 0) ELSE DigitsValue(s, j, 0)

substring(s, from, to) == SubSeq(s, Min(from, Len(s)) + 1, Min(to, Len(s)))

\* Numbers beyond the range of the model's integers (a JavaScript number holds
\* every integer below 2^53 exactly): <<hi, lo>> stands for hi * Limb + lo.
Limb == 1000000
LimbDigits == 6

WideAdd(w, n) == << w[1] + ((w[2] + n) \div Limb), (w[2] + n) % Limb >>

\* Number.prototype.toString of a non-negative integer.
WideString(w) ==
  IF w[1] = 0 THEN DecimalString(w[2])
  ELSE DecimalString(w[1]) \o padStart(DecimalString(w[2]), LimbDigits, 48)

RECURSIVE WideDigitsValue(_, _, _)
WideDigitsValue(s, i, acc) ==
  IF i > Len(s) \/ ~IsDigit(s[i]) THEN acc
  ELSE WideDigitsValue(s, i + 1,
         << acc[1] * 10 + ((acc[2] * 10 + (s[i] - 48)) \div Limb),
            (acc[2] * 10 + (s[i] - 48)) % Limb >>)

\* parseInt(s, 10) of a string without a minus sign.
WideParseInt(s) ==
  LET i == SkipSpace(s, 1)
      j == IF i <= Len(s) /\ s[i] = 43 THEN i + 1 ELSE i
  IN  IF j > Len(s) \/ ~IsDigit(s[j]) THEN << NaN, NaN >>
      ELSE WideDigitsValue(s, j, << 0, 0 >>)

(***************************************************************************)
(* Circuit selection                                                       *)
(***************************************************************************)
\* Outcomes of Math.floor(Math.random() * (i + 1)) for i = n-1 .. 1.
ChoiceVectors(n) == {js \in [1..(n - 1) -> 0..(n - 1)] : \A i \in 1..(n - 1) : js[i] <= i}

\* Faulty variant: the second assignment of the swap is missing.
Swap_overwrite(a, i, j) == [a EXCEPT ![i + 1] = a[j + 1]]

Swap(a, i, j) == [a EXCEPT ![i + 1] = a[j + 1], ![j + 1] = a[i + 1]]

RECURSIVE FisherYates(_, _, _)
FisherYates(melanges, i, js) ==
  IF i <= 0 THEN melanges ELSE FisherYates(Swap(melanges, i, js[i]), i - 1, js)

\* Faulty variant: the loop starts one position too low.
selectionnerNoeudsAleatoires_low(nodes, count, js) ==
  LET melanges == FisherYates(nodes, Len(nodes) - 2, js)
  IN  SubSeq(melanges, 1, Min(count, Len(melanges)))

selectionnerNoeudsAleatoires(nodes, count, js) ==
  LET melanges == FisherYates(nodes, Len(nodes) - 1, js)
  IN  SubSeq(melanges, 1, Min(count, Len(melanges)))

\* The circuits the selection returns when its draws are among js.
CircuitsOf(nodeList, draws) ==
  {selectionnerNoeudsAleatoires(nodeList, CircuitLen, js) :
     js \in draws \cap ChoiceVectors(Len(nodeList))}

\* The circuits the selection can return, over all outcomes of the draws.
Circuits(nodeList) ==
  {selectionnerNoeudsAleatoires(nodeList, CircuitLen, js) : js \in ChoiceVectors(Len(nodeList))}

(***************************************************************************)
(* Layer construction of sendMessage                                       *)
(***************************************************************************)
\* Faulty variant: the address is not padded.
Address_unpadded(port) == DecimalString(port)

Address(port) == padStart(DecimalString(port), AddrLen, 48)

\* Faulty variant: the address of a wide port is not padded.
WideAddress_unpadded(w) == WideString(w)

\* The address field of a port of any size.
WideAddress(w) == padStart(WideString(w), AddrLen, 48)

\* One layer: symEncrypt(key, address + data), rsaEncrypt(exportSymKey(key),
\* node.pubKey), concatenated.  d selects the generators' outcome.
Couche(donnees, port, pubKey, d) ==
  Bind(createRandomSymmetricKey(d), LAMBDA cle :
  Bind(symEncrypt(cle, Address(port) \o donnees, d), LAMBDA coucheCryptee :
  Bind(rsaEncrypt(exportSymKey(cle), pubKey, d), LAMBDA cleCryptee :
    IF ~cleCryptee.ok THEN Throw ELSE Ok(cleCryptee.val \o coucheCryptee))))

\* Faulty variant: the entry layer is addressed to the exit node.
BuildLayers_skip(message, destinationUserId, circuit, r) ==
  IF Len(circuit) < CircuitLen THEN Throw
  ELSE Bind(Couche(message, BASE_USER_PORT + destinationUserId,
                   circuit[3].pubKey, 3 * r + 2), LAMBDA l3 :
         IF ~l3.ok THEN Throw
         ELSE Bind(Couche(l3.val, BASE_ONION_ROUTER_PORT + circuit[3].nodeId,
                          circuit[2].pubKey, 3 * r + 1), LAMBDA l2 :
         IF ~l2.ok THEN Throw
         ELSE Bind(Couche(l2.val, BASE_ONION_ROUTER_PORT + circuit[3].nodeId,
                          circuit[1].pubKey, 3 * r), LAMBDA l1 :
         IF ~l1.ok THEN Throw ELSE Ok(<<l3.val, l2.val, l1.val>>))))

\* Faulty variant: with fewer than three nodes, a single layer for the first
\* node is built and sent.
BuildLayers_partial(message, destinationUserId, circuit, r) ==
  IF Len(circuit) = 0 THEN Throw
  ELSE IF Len(circuit) < CircuitLen
  THEN Bind(Couche(message, BASE_USER_PORT + destinationUserId,
                   circuit[1].pubKey, 3 * r), LAMBDA l1 :
         IF ~l1.ok THEN Throw ELSE Ok(<<l1.val, l1.val, l1.val>>))
  ELSE Bind(Couche(message, BASE_USER_PORT + destinationUserId,
                   circuit[3].pubKey, 3 * r + 2), LAMBDA l3 :
         IF ~l3.ok THEN Throw
         ELSE Bind(Couche(l3.val, BASE_ONION_ROUTER_PORT + circuit[3].nodeId,
                          circuit[2].pubKey, 3 * r + 1), LAMBDA l2 :
         IF ~l2.ok THEN Throw
         ELSE Bind(Couche(l2.val, BASE_ONION_ROUTER_PORT + circuit[2].nodeId,
                          circuit[1].pubKey, 3 * r), LAMBDA l1 :
         IF ~l1.ok THEN Throw ELSE Ok(<<l3.val, l2.val, l1.val>>))))

\* The three values of `données` (after the exit, middle and entry layers).
\* A circuit shorter than 3 leaves nœudSortie undefined: TypeError.
BuildLayers(message, destinationUserId, circuit, r) ==
  IF Len(circuit) < CircuitLen THEN Throw
  ELSE Bind(Couche(message, BASE_USER_PORT + destinationUserId,
                   circuit[3].pubKey, 3 * r + 2), LAMBDA l3 :
         IF ~l3.ok THEN Throw
         ELSE Bind(Couche(l3.val, BASE_ONION_ROUTER_PORT + circuit[3].nodeId,
                          circuit[2].pubKey, 3 * r + 1), LAMBDA l2 :
         IF ~l2.ok THEN Throw
         ELSE Bind(Couche(l2.val, BASE_ONION_ROUTER_PORT + circuit[2].nodeId,
                          circuit[1].pubKey, 3 * r), LAMBDA l1 :
         IF ~l1.ok THEN Throw ELSE Ok(<<l3.val, l2.val, l1.val>>))))

(***************************************************************************)
(* State                                                                   *)
(***************************************************************************)
VARIABLES
  registry,                    \* the registry's node list: <<[nodeId, pubKey]>>
  up,                          \* ports on which a server listens
  hung,                        \* ports whose server accepts /message requests but never answers
  outcomes,                    \* draws the shuffle's random generator can produce
  clients,                     \* sendMessage requests the clients have yet to post
  dernierMessageChiffreRecu,   \* per onion router
  dernierMessageDechiffreRecu, \* per onion router
  derniereDestinationMessage,  \* per onion router
  dernierMessageRecu,          \* per user
  dernierMessageEnvoye,        \* per user
  dernierCircuit,              \* per user
  reqs,                        \* the HTTP requests, with their handlers' progress
  nodes,                       \* argument of a call of sélectionnerNœudsAléatoires
  selection,                   \* its result (<<>> before the call returns)
  call                         \* a computation of the handlers taken on its own

routerVars == <<dernierMessageChiffreRecu, dernierMessageDechiffreRecu,
                derniereDestinationMessage>>
userVars == <<dernierMessageRecu, dernierMessageEnvoye, dernierCircuit>>
envVars == <<registry, up, hung, outcomes, nodes, selection, call>>
vars == <<envVars, clients, routerVars, userVars, reqs>>

\* Key pair generated by onion router n at start-up.
KeyPairOf(n) == n + 1

\* Faulty variant: every router uses the key pair of router 0.
clePriveeCrypto_shared(n) == importPrvKey(exportPrvKey(KeyPairOf(0))).val

clePriveeCrypto(n) == importPrvKey(exportPrvKey(KeyPairOf(n))).val

RouterPort(n) == BASE_ONION_ROUTER_PORT + n
UserPort(u) == BASE_USER_PORT + u
AllPorts == {RouterPort(n) : n \in Relays} \cup {UserPort(u) : u \in Users}

\* A request: kind "sendMessage" (client -> user) or "message" (-> router or user).
\*   pc: "sent" in the network, "refused" no server on the port (the caller's
\*       fetch rejects), "registry" / "decrypt" / "fetch" the handler is
\*       suspended at that await, "done" the response was sent.
\*   status: 0 until the response is sent, then 200 or 500.
\*   child: the request made by the handler's fetch (0: none).
\*   err: the call that threw, when the handler answered 500.
\*   circuit, layers: locals of sendMessage (the circuit, the values of données).
\*   plain: local of the router's handler (contenuDéchiffré).
\*   tampered: the body was altered in the network.
NewReq(kind, port, body, dest, parent) ==
  [kind |-> kind, port |-> port, body |-> body, dest |-> dest, parent |-> parent,
   pc |-> IF port \in up THEN "sent" ELSE "refused",
   status |-> 0, child |-> 0, err |-> "", circuit |-> <<>>, layers |-> <<>>,
   plain |-> <<>>, tampered |-> FALSE]

\* reqs holds, for every request a client posted, the request followed by
\* ChainLen free places: the request a handler's fetch makes takes the place
\* after the handler's own request (a chain is at most three relays and a
\* user long, each hop holding one layer less).
NoReq ==
  [kind |-> "none", port |-> 0, body |-> <<>>, dest |-> 0, parent |-> 0,
   pc |-> "none", status |-> 0, child |-> 0, err |-> "", circuit |-> <<>>,
   layers |-> <<>>, plain |-> <<>>, tampered |-> FALSE]

ChainLen == CircuitLen + 1

Posted(req) == <<req>> \o [i \in 1..ChainLen |-> NoReq]

\* The handler of request r calls fetch: the new request is in flight.
Fetch(rq, r, port, body) ==
  [rq EXCEPT ![r].pc = "fetch", ![r].child = r + 1,
             ![r + 1] = NewReq("message", port, body, 0, r)]

Respond(r, status, err) ==
  [reqs EXCEPT ![r].pc = "done", ![r].status = status, ![r].err = err]

IsRouterPort(p) == \E n \in Relays : p = RouterPort(n)
IsUserPort(p) == \E u \in Users : p = UserPort(u)

HonestRegistry ==
  [i \in 1..NumNodes |-> [nodeId |-> i - 1, pubKey |-> exportPubKey(KeyPairOf(i - 1))]]

\* Node 1 re-registered with the public key of another router (the registry
\* validates nothing, last write wins).
StaleRegistry ==
  [HonestRegistry EXCEPT ![2].pubKey = exportPubKey(KeyPairOf(0))]

ClientReq(message, destinationUserId) ==
  [user |-> 0, message |-> message, destinationUserId |-> destinationUserId]

\* Every message to the last user, one message to every user.
AllClientReqs ==
  {ClientReq(m, NumUsers - 1) : m \in Messages}
  \cup {ClientReq(<<104, 105>>, d) : d \in Users}
FewClientReqs == {ClientReq(<<104, 105>>, NumUsers - 1)}

\* Start-up situations: everything in order; a stale registry entry; a router
\* or a user that stopped; a registry too small for a circuit.
Scenarios ==
  {[registry |-> HonestRegistry, up |-> AllPorts, clients |-> <<c>>] : c \in AllClientReqs}
  \cup {[registry |-> StaleRegistry, up |-> AllPorts, clients |-> <<c>>] :
          c \in FewClientReqs}
  \cup {[registry |-> HonestRegistry, up |-> AllPorts \ {RouterPort(1)},
         clients |-> <<c>>] : c \in FewClientReqs}
  \cup {[registry |-> HonestRegistry, up |-> AllPorts \ {UserPort(NumUsers - 1)},
         clients |-> <<c>>] : c \in FewClientReqs}
  \cup {[registry |-> SubSeq(HonestRegistry, 1, k), up |-> AllPorts, clients |-> <<c>>] :
          k \in 0..(CircuitLen - 1), c \in FewClientReqs}

\* Nothing received, sent or requested yet.
Fresh ==
  /\ dernierMessageChiffreRecu = [n \in Relays |-> NullStr]
  /\ dernierMessageDechiffreRecu = [n \in Relays |-> NullStr]
  /\ derniereDestinationMessage = [n \in Relays |-> NullInt]
  /\ dernierMessageRecu = [u \in Users |-> NullStr]
  /\ dernierMessageEnvoye = [u \in Users |-> NullStr]
  /\ dernierCircuit = [u \in Users |-> <<>>]
  /\ reqs = <<>>

\* Every sequence of draws of a shuffle of a registry of up to NumNodes nodes.
AllOutcomes == UNION {ChoiceVectors(n) : n \in 0..NumNodes}

NoCall == [op |-> "idle"]

InitNet(sc, h, o) ==
  /\ registry = sc.registry
  /\ up = sc.up
  /\ hung = h
  /\ outcomes = o
  /\ clients = sc.clients
  /\ Fresh
  /\ nodes = <<>>
  /\ selection = <<>>
  /\ call = NoCall

\* Every server that listens answers, the generator is unconstrained.
InitState(sc) == InitNet(sc, {}, AllOutcomes)

Init == \E sc \in Scenarios : InitState(sc)

(***************************************************************************)
(* userApp.post("/sendMessage")                                            *)
(***************************************************************************)
\* A client posts {message, destinationUserId}; the handler runs up to its
\* first await (the registry fetch).
sendMessage_start ==
  /\ clients # <<>>
  /\ UserPort(Head(clients).user) \in up
  /\ dernierMessageEnvoye' =
       [dernierMessageEnvoye EXCEPT ![Head(clients).user] = Head(clients).message]
  /\ reqs' = reqs \o Posted([NewReq("sendMessage", UserPort(Head(clients).user),
                                         Head(clients).message,
                                         Head(clients).destinationUserId, 0)
                                    EXCEPT !.pc = "registry"])
  /\ clients' = Tail(clients)
  /\ UNCHANGED <<envVars, routerVars, dernierMessageRecu, dernierCircuit>>

\* After the registry answered: circuit selection, the three layers, the fetch
\* to the entry node.  Any exception is caught: 500.
sendMessage_build(r, d) ==
  /\ reqs[r].kind = "sendMessage" /\ reqs[r].pc = "registry"
  /\ \E circuit \in CircuitsOf(registry, outcomes) :
     \E built \in {BuildLayers(reqs[r].body, reqs[r].dest, circuit, d)} :
         /\ dernierCircuit' =
              [dernierCircuit EXCEPT ![reqs[r].port - BASE_USER_PORT] =
                 [i \in 1..Len(circuit) |-> circuit[i].nodeId]]
         /\ IF ~built.ok
            THEN reqs' = [Respond(r, 500, "build") EXCEPT ![r].circuit = circuit]
            ELSE reqs' = Fetch([reqs EXCEPT ![r].circuit = circuit,
                                            ![r].layers = built.val],
                               r, BASE_ONION_ROUTER_PORT + circuit[1].nodeId,
                               built.val[3])
  /\ UNCHANGED <<envVars, clients, routerVars, dernierMessageRecu, dernierMessageEnvoye>>

\* Faulty variant: a non-success answer of the entry node is reported as a
\* failure.
sendMessage_respond_checked(r) ==
  /\ reqs[r].kind = "sendMessage" /\ reqs[r].pc = "fetch"
  /\ reqs[reqs[r].child].pc = "done"
  /\ reqs' = IF reqs[reqs[r].child].status = 200
             THEN Respond(r, 200, "") ELSE Respond(r, 500, "fetch")
  /\ UNCHANGED <<envVars, clients, routerVars, userVars>>

\* The fetch to the entry node resolved (whatever its status): 200.
sendMessage_respond(r) ==
  /\ reqs[r].kind = "sendMessage" /\ reqs[r].pc = "fetch"
  /\ reqs[reqs[r].child].pc = "done"
  /\ reqs' = Respond(r, 200, "")
  /\ UNCHANGED <<envVars, clients, routerVars, userVars>>

\* The fetch to the entry node rejected: 500.
sendMessage_catch(r) ==
  /\ reqs[r].kind = "sendMessage" /\ reqs[r].pc = "fetch"
  /\ reqs[reqs[r].child].pc = "refused"
  /\ reqs' = Respond(r, 500, "fetch")
  /\ UNCHANGED <<envVars, clients, routerVars, userVars>>

(***************************************************************************)
(* userApp.post("/message")                                                *)
(***************************************************************************)
\* Faulty variant: the user's handler records the message and never answers.
userMessage_silent(r) ==
  /\ reqs[r].kind = "message" /\ reqs[r].pc = "sent" /\ IsUserPort(reqs[r].port)
  /\ reqs[r].port \notin hung
  /\ dernierMessageRecu' =
       [dernierMessageRecu EXCEPT ![reqs[r].port - BASE_USER_PORT] = reqs[r].body]
  /\ reqs' = [reqs EXCEPT ![r].pc = "pending"]
  /\ UNCHANGED <<envVars, clients, routerVars, dernierMessageEnvoye, dernierCircuit>>

userMessage(r) ==
  /\ reqs[r].kind = "message" /\ reqs[r].pc = "sent" /\ IsUserPort(reqs[r].port)
  /\ reqs[r].port \notin hung
  /\ dernierMessageRecu' =
       [dernierMessageRecu EXCEPT ![reqs[r].port - BASE_USER_PORT] = reqs[r].body]
  /\ reqs' = Respond(r, 200, "")
  /\ UNCHANGED <<envVars, clients, routerVars, dernierMessageEnvoye, dernierCircuit>>

(***************************************************************************)
(* routeurOnion.post("/message")                                           *)
(***************************************************************************)
\* Faulty variant: an envelope too short to hold the key blob is refused
\* before any decryption.
routeurMessage_start_checked(r) ==
  /\ reqs[r].kind = "message" /\ reqs[r].pc = "sent" /\ IsRouterPort(reqs[r].port)
  /\ reqs[r].port \notin hung
  /\ dernierMessageChiffreRecu' =
       [dernierMessageChiffreRecu EXCEPT ![reqs[r].port - BASE_ONION_ROUTER_PORT] = reqs[r].body]
  /\ reqs' = IF IsString(reqs[r].body) /\ Len(reqs[r].body) >= KeyBlobLen
             THEN [reqs EXCEPT ![r].pc = "decrypt"]
             ELSE Respond(r, 500, "split")
  /\ UNCHANGED <<envVars, clients, dernierMessageDechiffreRecu,
                 derniereDestinationMessage, userVars>>

\* Up to the first await (rsaDecrypt): the diagnostic variable, the split.
\* message.substring throws when message is not a string (caught: 500).
routeurMessage_start(r) ==
  /\ reqs[r].kind = "message" /\ reqs[r].pc = "sent" /\ IsRouterPort(reqs[r].port)
  /\ reqs[r].port \notin hung
  /\ dernierMessageChiffreRecu' =
       [dernierMessageChiffreRecu EXCEPT ![reqs[r].port - BASE_ONION_ROUTER_PORT] = reqs[r].body]
  /\ reqs' = IF IsString(reqs[r].body)
             THEN [reqs EXCEPT ![r].pc = "decrypt"]
             ELSE Respond(r, 500, "split")
  /\ UNCHANGED <<envVars, clients, dernierMessageDechiffreRecu,
                 derniereDestinationMessage, userVars>>

\* Faulty variant: the address is not stripped from what is forwarded.
Peel_whole(message, nodeId) ==
  Bind(rsaDecrypt(substring(message, 0, KeyBlobLen), clePriveeCrypto(nodeId)),
       LAMBDA cleSymetriqueBase64 :
    IF ~cleSymetriqueBase64.ok THEN [err |-> "rsaDecrypt"]
    ELSE IF ~importSymKey(cleSymetriqueBase64.val).ok THEN [err |-> "importSymKey"]
    ELSE Bind(symDecrypt(cleSymetriqueBase64.val,
                         substring(message, KeyBlobLen, Len(message))),
              LAMBDA contenuDechiffre :
      IF ~contenuDechiffre.ok THEN [err |-> "symDecrypt"]
      ELSE [err |-> "", contenuDechiffre |-> contenuDechiffre.val,
            destinationSuivante |-> parseInt(substring(contenuDechiffre.val, 0, AddrLen)),
            messageSuivant |-> contenuDechiffre.val]))

\* What the handler computes from the envelope: the stage that threw, or the
\* next destination and message.
Peel(message, nodeId) ==
  Bind(rsaDecrypt(substring(message, 0, KeyBlobLen), clePriveeCrypto(nodeId)),
       LAMBDA cleSymetriqueBase64 :
    IF ~cleSymetriqueBase64.ok THEN [err |-> "rsaDecrypt"]
    ELSE IF ~importSymKey(cleSymetriqueBase64.val).ok THEN [err |-> "importSymKey"]
    ELSE Bind(symDecrypt(cleSymetriqueBase64.val,
                         substring(message, KeyBlobLen, Len(message))),
              LAMBDA contenuDechiffre :
      IF ~contenuDechiffre.ok THEN [err |-> "symDecrypt"]
      ELSE [err |-> "", contenuDechiffre |-> contenuDechiffre.val,
            destinationSuivante |-> parseInt(substring(contenuDechiffre.val, 0, AddrLen)),
            messageSuivant |-> substring(contenuDechiffre.val, AddrLen,
                                         Len(contenuDechiffre.val))]))

\* Faulty variant: after the await the handler reads the envelope back from
\* the router's diagnostic variable instead of its own local.
routeurMessage_decrypt_shared(r) ==
  /\ reqs[r].kind = "message" /\ reqs[r].pc = "decrypt"
  /\ \E n \in {reqs[r].port - BASE_ONION_ROUTER_PORT} :
     \E p \in {Peel(dernierMessageChiffreRecu[n], n)} :
         IF p.err # ""
         THEN /\ reqs' = Respond(r, 500, p.err)
              /\ UNCHANGED <<dernierMessageDechiffreRecu, derniereDestinationMessage>>
         ELSE /\ dernierMessageDechiffreRecu' =
                   [dernierMessageDechiffreRecu EXCEPT ![n] = p.messageSuivant]
              /\ derniereDestinationMessage' =
                   [derniereDestinationMessage EXCEPT ![n] = p.destinationSuivante]
              /\ reqs' = Fetch([reqs EXCEPT ![r].plain = p.contenuDechiffre],
                               r, p.destinationSuivante, p.messageSuivant)
  /\ UNCHANGED <<envVars, clients, dernierMessageChiffreRecu, userVars>>

\* Faulty variant: a failed decryption resets the diagnostic variables.
routeurMessage_decrypt_reset(r) ==
  /\ reqs[r].kind = "message" /\ reqs[r].pc = "decrypt"
  /\ \E n \in {reqs[r].port - BASE_ONION_ROUTER_PORT} :
     \E p \in {Peel(reqs[r].body, n)} :
         IF p.err # ""
         THEN /\ reqs' = Respond(r, 500, p.err)
              /\ dernierMessageDechiffreRecu' =
                   [dernierMessageDechiffreRecu EXCEPT ![n] = NullStr]
              /\ derniereDestinationMessage' =
                   [derniereDestinationMessage EXCEPT ![n] = NullInt]
         ELSE /\ dernierMessageDechiffreRecu' =
                   [dernierMessageDechiffreRecu EXCEPT ![n] = p.messageSuivant]
              /\ derniereDestinationMessage' =
                   [derniereDestinationMessage EXCEPT ![n] = p.destinationSuivante]
              /\ reqs' = Fetch([reqs EXCEPT ![r].plain = p.contenuDechiffre],
                               r, p.destinationSuivante, p.messageSuivant)
  /\ UNCHANGED <<envVars, clients, dernierMessageChiffreRecu, userVars>>

\* From the resolution of rsaDecrypt to the fetch call: the decryptions, the
\* diagnostic variables, the forward.  A decryption that throws is caught: 500.
\* (Between the awaits of rsaDecrypt, importSymKey and symDecrypt the handler
\* reads its own constants and the router's private key only, and writes
\* nothing shared: these segments commute with every step of another handler
\* and are taken together with the segment that follows symDecrypt.)
routeurMessage_decrypt(r) ==
  /\ reqs[r].kind = "message" /\ reqs[r].pc = "decrypt"
  /\ \E n \in {reqs[r].port - BASE_ONION_ROUTER_PORT} :
     \E p \in {Peel(reqs[r].body, n)} :
         IF p.err # ""
         THEN /\ reqs' = Respond(r, 500, p.err)
              /\ UNCHANGED <<dernierMessageDechiffreRecu, derniereDestinationMessage>>
         ELSE /\ dernierMessageDechiffreRecu' =
                   [dernierMessageDechiffreRecu EXCEPT ![n] = p.messageSuivant]
              /\ derniereDestinationMessage' =
                   [derniereDestinationMessage EXCEPT ![n] = p.destinationSuivante]
              /\ reqs' = Fetch([reqs EXCEPT ![r].plain = p.contenuDechiffre],
                               r, p.destinationSuivante, p.messageSuivant)
  /\ UNCHANGED <<envVars, clients, dernierMessageChiffreRecu, userVars>>

\* Faulty variants of the two continuations of the forward fetch:
\*   _checked: a non-success answer of the next hop is turned into a failure;
\*   _relayed: the status of the next hop is passed on;
\*   _nowait:  the fetch is not awaited;
\*   _swallow: a rejected fetch is answered with success.
routeurMessage_respond_checked(r) ==
  /\ reqs[r].kind = "message" /\ reqs[r].pc = "fetch"
  /\ reqs[reqs[r].child].pc = "done"
  /\ reqs' = IF reqs[reqs[r].child].status = 200
             THEN Respond(r, 200, "") ELSE Respond(r, 500, "fetch")
  /\ UNCHANGED <<envVars, clients, routerVars, userVars>>

routeurMessage_respond_relayed(r) ==
  /\ reqs[r].kind = "message" /\ reqs[r].pc = "fetch"
  /\ reqs[reqs[r].child].pc = "done"
  /\ reqs' = Respond(r, reqs[reqs[r].child].status, "")
  /\ UNCHANGED <<envVars, clients, routerVars, userVars>>

routeurMessage_respond_nowait(r) ==
  /\ reqs[r].kind = "message" /\ reqs[r].pc = "fetch"
  /\ reqs[reqs[r].child].pc # "refused"
  /\ reqs' = Respond(r, 200, "")
  /\ UNCHANGED <<envVars, clients, routerVars, userVars>>

routeurMessage_catch_swallow(r) ==
  /\ reqs[r].kind = "message" /\ reqs[r].pc = "fetch"
  /\ reqs[reqs[r].child].pc = "refused"
  /\ reqs' = Respond(r, 200, "")
  /\ UNCHANGED <<envVars, clients, routerVars, userVars>>

\* Faulty variant: the destination is recorded after the await of the fetch.
routeurMessage_respond_late(r) ==
  /\ reqs[r].kind = "message" /\ reqs[r].pc = "fetch"
  /\ reqs[reqs[r].child].pc = "done"
  /\ derniereDestinationMessage' =
       [derniereDestinationMessage EXCEPT ![reqs[r].port - BASE_ONION_ROUTER_PORT] =
          reqs[reqs[r].child].port]
  /\ reqs' = Respond(r, 200, "")
  /\ UNCHANGED <<envVars, clients, dernierMessageChiffreRecu, dernierMessageDechiffreRecu,
                 userVars>>

\* The forward fetch resolved (whatever the next hop's status): 200 "success".
routeurMessage_respond(r) ==
  /\ reqs[r].kind = "message" /\ reqs[r].pc = "fetch"
  /\ reqs[reqs[r].child].pc = "done"
  /\ reqs' = Respond(r, 200, "")
  /\ UNCHANGED <<envVars, clients, routerVars, userVars>>

\* Faulty variant: the handler also gives up, with 500, on a next hop that
\* accepted the request and has not answered.
routeurMessage_catch_timeout(r) ==
  /\ reqs[r].kind = "message" /\ reqs[r].pc = "fetch"
  /\ \/ reqs[reqs[r].child].pc = "refused"
     \/ reqs[reqs[r].child].pc = "sent" /\ reqs[reqs[r].child].port \in hung
  /\ reqs' = Respond(r, 500, "fetch")
  /\ UNCHANGED <<envVars, clients, routerVars, userVars>>

\* The forward fetch rejected (nothing listens on the port): 500 "error".
routeurMessage_catch(r) ==
  /\ reqs[r].kind = "message" /\ reqs[r].pc = "fetch"
  /\ reqs[reqs[r].child].pc = "refused"
  /\ reqs' = Respond(r, 500, "fetch")
  /\ UNCHANGED <<envVars, clients, routerVars, userVars>>

(***************************************************************************)
(* The network: one byte of the symmetric ciphertext of an envelope in     *)
(* transit is altered (its lowest bit flipped), once per behaviour.        *)
(***************************************************************************)
TamperBytes == AddrLen..(AddrLen + TamperSpan)

AlterByte(message, b) ==
  LET tamponBinaire == base64ToArrayBuffer(substring(message, KeyBlobLen, Len(message)))
  IN  substring(message, 0, KeyBlobLen)
      \o arrayBufferToBase64([tamponBinaire EXCEPT ![b] = Xor(@, 1)])

tamper(r, b) ==
  /\ reqs[r].kind = "message" /\ reqs[r].pc = "sent" /\ IsRouterPort(reqs[r].port)
  /\ \A q \in 1..Len(reqs) : ~reqs[q].tampered
  /\ Len(reqs[r].body) >= KeyBlobLen + 4 * ((b + 2) \div 3)
  /\ reqs' = [reqs EXCEPT ![r].body = AlterByte(reqs[r].body, b), ![r].tampered = TRUE]
  /\ UNCHANGED <<envVars, clients, routerVars, userVars>>

(***************************************************************************)
(* An HTTP client posts a body of its own making to a router's /message    *)
(***************************************************************************)
\* The envelope sendMessage builds for "hi" over the registry's first three
\* nodes.
Envelope ==
  BuildLayers(<<104, 105>>, NumUsers - 1, SubSeq(HonestRegistry, 1, CircuitLen), 1).val[3]

\* Too short to hold the bytes of the key blob: empty, cut inside the blob.
TooShort == {<<>>, SubSeq(Envelope, 1, 100), SubSeq(Envelope, 1, KeyBlobLen - 3)}
\* The length of a key blob, but not one ("AAA...").
NoKey == {[i \in 1..KeyBlobLen |-> 65]}
\* The bytes of the key blob intact: the blob less its last padding character,
\* the blob alone, the ciphertext cut inside the iv, cut at its end.
CutCipher == {SubSeq(Envelope, 1, KeyBlobLen - 1), SubSeq(Envelope, 1, KeyBlobLen),
              SubSeq(Envelope, 1, KeyBlobLen + 20), SubSeq(Envelope, 1, Len(Envelope) - 4)}
Malformed == {Undefined} \cup TooShort \cup NoKey \cup CutCipher

\* (One such request in a behaviour.)
post(port, body) ==
  /\ \A q \in 1..Len(reqs) : reqs[q].kind = "message" => reqs[q].parent # 0
  /\ clients = <<>>
  /\ reqs' = reqs \o Posted(NewReq("message", port, body, 0, 0))
  /\ UNCHANGED <<envVars, clients, routerVars, userVars>>

(***************************************************************************)
(* The address field on its own: written by sendMessage, read by a router  *)
(***************************************************************************)
MaxSmallId == 9

\* Identifiers: the small ones, and those around the ports of 4, 5, 10 and 11
\* digits.
Identifiers ==
  {<<0, k>> : k \in 0..MaxSmallId}
  \cup {<<0, 5999>>, <<0, 6000>>, <<0, 7000>>, <<0, 999999>>,
        <<9999, 995999>>, <<9999, 996000>>, <<9999, 996999>>, <<9999, 997000>>,
        <<12345, 678901>>}

Payloads == {<<>>, <<104, 105>>, <<52, 50>>}

\* `${base + id}`.padStart(10, "0") + données
adresse(base, id, donnees) ==
  /\ call.op = "idle"
  /\ call' = [op |-> "layer", port |-> WideAdd(id, base),
              adresse |-> WideAddress(WideAdd(id, base)),
              couche |-> WideAddress(WideAdd(id, base)) \o donnees,
              destinationSuivante |-> << NaN, NaN >>]
  /\ UNCHANGED <<registry, up, hung, outcomes, nodes, selection, clients,
                 routerVars, userVars, reqs>>

\* parseInt(contenuDéchiffré.substring(0, 10), 10)
extraire ==
  /\ call.op = "layer"
  /\ call' = [call EXCEPT !.op = "parsed",
                !.destinationSuivante = WideParseInt(substring(call.couche, 0, AddrLen))]
  /\ UNCHANGED <<registry, up, hung, outcomes, nodes, selection, clients,
                 routerVars, userVars, reqs>>

(***************************************************************************)
(* One layer on its own: built by sendMessage, split by a router           *)
(***************************************************************************)
\* What a layer wraps: a user's message, or the layers inside it.
LayerData ==
  Messages
  \cup {BuildLayers(<<104, 105>>, 0, SubSeq(HonestRegistry, 1, CircuitLen), 1).val[k] :
          k \in 1..(CircuitLen - 1)}

\* symEncrypt, rsaEncrypt and their concatenation, as sendMessage does for
\* each of its layers.
couche(donnees, port, pubKey, d) ==
  /\ call.op = "idle"
  /\ call' = [op |-> "couche",
              coucheCryptee |-> symEncrypt(createRandomSymmetricKey(d),
                                           Address(port) \o donnees, d),
              cleCryptee |-> rsaEncrypt(exportSymKey(createRandomSymmetricKey(d)),
                                        pubKey, d).val,
              donnees |-> Couche(donnees, port, pubKey, d).val,
              clair |-> donnees,
              cleChiffree |-> <<>>, contenuChiffre |-> <<>>]
  /\ UNCHANGED <<registry, up, hung, outcomes, nodes, selection, clients,
                 routerVars, userVars, reqs>>

\* message.substring(0, 344), message.substring(344)
separer ==
  /\ call.op = "couche"
  /\ call' = [call EXCEPT !.op = "split",
                !.cleChiffree = substring(call.donnees, 0, KeyBlobLen),
                !.contenuChiffre = substring(call.donnees, KeyBlobLen, Len(call.donnees))]
  /\ UNCHANGED <<registry, up, hung, outcomes, nodes, selection, clients,
                 routerVars, userVars, reqs>>

(***************************************************************************)
(* A call of sélectionnerNœudsAléatoires on its own                        *)
(***************************************************************************)
\* Lists of k nodes with pairwise distinct nodeIds, in any order.
NodeLists(k) ==
  {l \in [1..k -> {HonestRegistry[i] : i \in 1..NumNodes}] :
     \A i, j \in 1..k : i # j => l[i].nodeId # l[j].nodeId}

\* nodes is the caller's array, before and after the call (the function
\* shuffles a copy, [...nodes]); call keeps the argument as it was passed and
\* the copy as the loop leaves it.
select(js) ==
  /\ selection = <<>>
  /\ selection' = <<selectionnerNoeudsAleatoires(nodes, CircuitLen, js)>>
  /\ call' = [op |-> "select", nodes |-> nodes,
              melanges |-> FisherYates(nodes, Len(nodes) - 1, js)]
  /\ nodes' = nodes
  /\ UNCHANGED <<registry, up, hung, outcomes, clients, routerVars, userVars, reqs>>

(***************************************************************************)
(* Specifications                                                          *)
(***************************************************************************)
Next ==
  \/ sendMessage_start
  \/ \E r \in 1..Len(reqs), d \in 1..NumDraws : sendMessage_build(r, d)
  \/ \E r \in 1..Len(reqs) : sendMessage_respond(r)
  \/ \E r \in 1..Len(reqs) : sendMessage_catch(r)
  \/ \E r \in 1..Len(reqs) : userMessage(r)
  \/ \E r \in 1..Len(reqs) : routeurMessage_start(r)
  \/ \E r \in 1..Len(reqs) : routeurMessage_decrypt(r)
  \/ \E r \in 1..Len(reqs) : routeurMessage_respond(r)
  \/ \E r \in 1..Len(reqs) : routeurMessage_catch(r)

\* One sendMessage in each start-up situation.
Spec == Init /\ [][Next]_vars

\* The same with the scheduling of the services: a request in the network
\* reaches a listening server, and a handler whose awaited call has settled is
\* resumed by its event loop.  For the two steps that encrypt or decrypt, weak
\* fairness is written out (WF_v(A) is <>[]ENABLED <<A>>_v => []<><<A>>_v),
\* with the step's guard in the place of ENABLED: either step changes reqs
\* whenever its guard holds.
AtRegistry ==
  /\ \E r \in 1..Len(reqs) : reqs[r].kind = "sendMessage" /\ reqs[r].pc = "registry"
  /\ CircuitsOf(registry, outcomes) # {}
AtDecrypt == \E r \in 1..Len(reqs) : reqs[r].kind = "message" /\ reqs[r].pc = "decrypt"

Fairness ==
  /\ WF_vars(sendMessage_start)
  /\ <>[]AtRegistry
       => []<><<\E r \in 1..Len(reqs), d \in 1..NumDraws : sendMessage_build(r, d)>>_vars
  /\ WF_vars(\E r \in 1..Len(reqs) : sendMessage_respond(r))
  /\ WF_vars(\E r \in 1..Len(reqs) : sendMessage_catch(r))
  /\ WF_vars(\E r \in 1..Len(reqs) : userMessage(r))
  /\ WF_vars(\E r \in 1..Len(reqs) : routeurMessage_start(r))
  /\ <>[]AtDecrypt => []<><<\E r \in 1..Len(reqs) : routeurMessage_decrypt(r)>>_vars
  /\ WF_vars(\E r \in 1..Len(reqs) : routeurMessage_respond(r))
  /\ WF_vars(\E r \in 1..Len(reqs) : routeurMessage_catch(r))

SpecLive == Init /\ [][Next]_vars /\ Fairness

\* One sendMessage in a network whose envelopes may be altered; a router that
\* is not (or no longer) part of the network may be down.
InitTamper ==
  \E m \in {<<>>, <<104, 105>>}, n \in {0, NumNodes - 1} :
     InitState([registry |-> SubSeq(HonestRegistry, 1, CircuitLen),
                up |-> AllPorts \ {RouterPort(n)},
                clients |-> <<ClientReq(m, NumUsers - 1)>>])

NextTamper ==
  \/ Next
  \/ \E r \in 1..Len(reqs), b \in TamperBytes : tamper(r, b)

SpecTamper == InitTamper /\ [][NextTamper]_vars

\* Two sendMessage requests posted one after the other to the same user, over
\* a registry of exactly three nodes, so that every relay handles an envelope
\* of each.  The generator produces the draws of two shuffles (the registry's
\* order and a rotation of it).  Either everything answers, or the first user
\* or the last relay accepts requests without ever answering, or a user or a
\* relay is down.
SameOrder == <<1, 2>>
Rotated == <<0, 0>>

ConcClients == <<ClientReq(<<104, 105>>, NumUsers - 1), ClientReq(<<233>>, 0)>>

InitConc ==
  \E f \in {[up |-> AllPorts, hung |-> {}, outcomes |-> {SameOrder, Rotated}],
            [up |-> AllPorts, hung |-> {UserPort(0)}, outcomes |-> {SameOrder}],
            [up |-> AllPorts, hung |-> {RouterPort(CircuitLen - 1)}, outcomes |-> {Rotated}],
            [up |-> AllPorts \ {UserPort(NumUsers - 1)}, hung |-> {}, outcomes |-> {SameOrder}],
            [up |-> AllPorts \ {RouterPort(0)}, hung |-> {}, outcomes |-> {SameOrder}]} :
     InitNet([registry |-> SubSeq(HonestRegistry, 1, CircuitLen), up |-> f.up,
              clients |-> ConcClients],
             f.hung, f.outcomes)

SpecConc == InitConc /\ [][Next]_vars

\* One body, malformed or not, posted to a router; the destination user may
\* be down.
InitDirect ==
  \E u \in {AllPorts, AllPorts \ {UserPort(NumUsers - 1)}} :
     InitState([registry |-> HonestRegistry, up |-> u, clients |-> <<>>])

NextDirect ==
  \/ \E n \in Relays, body \in Malformed \cup {Envelope} : post(RouterPort(n), body)
  \/ \E r \in 1..Len(reqs) : userMessage(r)
  \/ \E r \in 1..Len(reqs) : routeurMessage_start(r)
  \/ \E r \in 1..Len(reqs) : routeurMessage_decrypt(r)
  \/ \E r \in 1..Len(reqs) : routeurMessage_respond(r)
  \/ \E r \in 1..Len(reqs) : routeurMessage_catch(r)

SpecDirect == InitDirect /\ [][NextDirect]_vars

\* The address field of a layer, for every identifier and payload.
InitAddress == InitState([registry |-> <<>>, up |-> {}, clients |-> <<>>])

NextAddress ==
  \/ \E base \in {BASE_USER_PORT, BASE_ONION_ROUTER_PORT}, id \in Identifiers,
        donnees \in Payloads : adresse(base, id, donnees)
  \/ extraire

SpecAddress == InitAddress /\ [][NextAddress]_vars

\* One layer for every payload, next hop, registered key and draw.
InitLayer == InitState([registry |-> HonestRegistry, up |-> AllPorts, clients |-> <<>>])

NextLayer ==
  \/ \E donnees \in LayerData, port \in AllPorts, i \in 1..Len(registry),
        d \in 1..NumDraws : couche(donnees, port, registry[i].pubKey, d)
  \/ separer

SpecLayer == InitLayer /\ [][NextLayer]_vars

\* One sendMessage over the registry's first three nodes in their order, and
\* one body that cannot be decrypted posted to one of them, before, during or
\* after the relay's handling of the send's envelope.
Undecryptable ==
  {<<>>, SubSeq(Envelope, 1, KeyBlobLen), SubSeq(Envelope, 1, Len(Envelope) - 4)}

InitFrame ==
  InitNet([registry |-> SubSeq(HonestRegistry, 1, CircuitLen), up |-> AllPorts,
           clients |-> <<ClientReq(<<104, 105>>, NumUsers - 1)>>],
          {}, {SameOrder})

NextFrame ==
  \/ sendMessage_start
  \/ \E r \in 1..Len(reqs), d \in 1..NumDraws : sendMessage_build(r, d)
  \/ \E r \in 1..Len(reqs) : sendMessage_respond(r)
  \/ \E r \in 1..Len(reqs) : userMessage(r)
  \/ \E r \in 1..Len(reqs) : routeurMessage_start(r)
  \/ \E r \in 1..Len(reqs) : routeurMessage_decrypt(r)
  \/ \E r \in 1..Len(reqs) : routeurMessage_respond(r)
  \/ \E n \in 0..(CircuitLen - 1), body \in Undecryptable : post(RouterPort(n), body)

SpecFrame == InitFrame /\ [][NextFrame]_vars

\* Calls of the selection function on every node list, with every outcome of
\* the random draws.
InitSelect ==
  \E k \in 0..NumNodes : \E l \in NodeLists(k) :
     /\ registry = <<>>
     /\ up = {}
     /\ hung = {}
     /\ outcomes = AllOutcomes
     /\ clients = <<>>
     /\ Fresh
     /\ nodes = l
     /\ selection = <<>>
     /\ call = NoCall

NextSelect == \E js \in ChoiceVectors(Len(nodes)) : select(js)

SpecSelect == InitSelect /\ [][NextSelect]_vars

(***************************************************************************)
(* Properties                                                              *)
(***************************************************************************)
Sends == {s \in 1..Len(reqs) : reqs[s].kind = "sendMessage"}
RelayReqs == {q \in 1..Len(reqs) : reqs[q].kind = "message" /\ IsRouterPort(reqs[q].port)}
NodeOf(q) == reqs[q].port - BASE_ONION_ROUTER_PORT

\* The k-th request of the chain started by request s (0: not made).
RECURSIVE Hop(_, _)
Hop(s, k) ==
  IF k = 0 THEN s
  ELSE IF Hop(s, k - 1) = 0 THEN 0 ELSE reqs[Hop(s, k - 1)].child

\* The requests whose handlers (transitively) made request q.
RECURSIVE Callers(_)
Callers(q) ==
  IF reqs[q].parent = 0 THEN {} ELSE {reqs[q].parent} \cup Callers(reqs[q].parent)

CircuitIds(s) == {reqs[s].circuit[i].nodeId : i \in 1..Len(reqs[s].circuit)}

\* The circuit of s has three nodes whose registered keys are their own, all
\* of them listening, as is the destination user.
Sound(s) ==
  /\ Len(reqs[s].circuit) = CircuitLen
  /\ \A i \in 1..CircuitLen :
        /\ reqs[s].circuit[i].nodeId \in Relays
        /\ reqs[s].circuit[i].pubKey = exportPubKey(KeyPairOf(reqs[s].circuit[i].nodeId))
        /\ RouterPort(reqs[s].circuit[i].nodeId) \in up
  /\ UserPort(reqs[s].dest) \in up

Delivered(s) ==
  /\ reqs[s].status = 200
  /\ dernierMessageRecu[reqs[s].dest] = reqs[s].body
  /\ derniereDestinationMessage[reqs[s].circuit[CircuitLen].nodeId]
       = BASE_USER_PORT + reqs[s].dest

\* C1 as stated: for any message, once sendMessage has answered over a circuit
\* of three listening relays with matching keys, the destination user holds
\* exactly the message and the exit relay recorded BASE_USER_PORT + d.
C1_EndToEndAnyString ==
  \A s \in Sends : (reqs[s].pc = "done" /\ Sound(s)) => Delivered(s)

\* C1 (amended): the same for every message without an unpaired surrogate.
C1_EndToEndWellFormed ==
  \A s \in Sends :
     (reqs[s].pc = "done" /\ Sound(s) /\ WellFormed(reqs[s].body)) => Delivered(s)

C1_Witness ==
  \E s \in Sends :
     /\ reqs[s].pc = "done" /\ Sound(s) /\ reqs[s].dest = NumUsers - 1
     /\ reqs[s].body = <<55357, 56832>>
     /\ dernierMessageRecu[reqs[s].dest] = <<55357, 56832>>

\* C2: the envelope goes to the entry node, the layer decrypted by the entry
\* node to the middle node, the layer decrypted by the middle node to the exit
\* node, each after the previous node decrypted, and only then to the
\* destination user; no other relay receives anything.
C2_HopOrder ==
  \A s \in Sends : reqs[s].child # 0 =>
     /\ Len(reqs[s].circuit) = CircuitLen
     /\ \A k \in 1..CircuitLen : Hop(s, k) # 0 =>
           /\ reqs[Hop(s, k)].port = RouterPort(reqs[s].circuit[k].nodeId)
           /\ reqs[Hop(s, k)].body = reqs[s].layers[CircuitLen + 1 - k]
           /\ k > 1 => /\ reqs[Hop(s, k - 1)].pc \in {"fetch", "done"}
                       /\ reqs[Hop(s, k)].body =
                            dernierMessageDechiffreRecu[reqs[s].circuit[k - 1].nodeId]
     /\ Hop(s, CircuitLen + 1) # 0 =>
           /\ reqs[Hop(s, CircuitLen + 1)].port = UserPort(reqs[s].dest)
           /\ reqs[Hop(s, CircuitLen)].pc \in {"fetch", "done"}
     /\ \A q \in 1..Len(reqs) :
           reqs[q].kind = "message" => \E k \in 1..(CircuitLen + 1) : q = Hop(s, k)
     /\ \A q \in RelayReqs : \E k \in 1..CircuitLen : q = Hop(s, k)
     /\ \A n \in Relays \ CircuitIds(s) : dernierMessageChiffreRecu[n] = NullStr

C2_Witness ==
  \E s \in Sends :
     /\ reqs[s].pc = "done" /\ Sound(s)
     /\ reqs[Hop(s, CircuitLen)].pc = "done"
     /\ Relays \ CircuitIds(s) # {}
     /\ \A n \in CircuitIds(s) : dernierMessageChiffreRecu[n] # NullStr

\* C3: from a list of at least three distinct nodes the selection returns
\* three pairwise distinct nodes, all taken from the list, whatever the random
\* draws.
C3_ThreeDistinct ==
  (selection # <<>> /\ Len(nodes) >= CircuitLen) =>
     /\ Len(selection[1]) = CircuitLen
     /\ \A i, j \in 1..CircuitLen :
           i # j => selection[1][i].nodeId # selection[1][j].nodeId
     /\ \A i \in 1..CircuitLen : \E k \in 1..Len(nodes) : selection[1][i] = nodes[k]

C3_Witness ==
  /\ selection # <<>> /\ Len(nodes) > CircuitLen
  /\ selection[1][1] = nodes[Len(nodes)]
  /\ selection[1][2] = nodes[1]

\* C4 as stated: the selection never returns a circuit shorter than the
\* requested length (it fails instead when fewer than three nodes are listed).
C4_NeverShort ==
  selection # <<>> => Len(selection[1]) = CircuitLen

\* The hop of a chain whose layer was encrypted with a key that is not the
\* key of the relay that receives it.
WrongKey(q) ==
  \E s \in Sends : \E k \in 1..Len(reqs[s].circuit) :
     /\ q = Hop(s, k)
     /\ reqs[s].circuit[k].pubKey # exportPubKey(KeyPairOf(NodeOf(q)))

\* C5: a relay that receives an envelope whose key blob was encrypted with
\* another relay's public key fails at the asymmetric decryption, answers 500
\* and forwards nothing.
C5_WrongKeyFails ==
  \A q \in RelayReqs : WrongKey(q) =>
     /\ reqs[q].pc \in {"sent", "decrypt", "done"}
     /\ reqs[q].child = 0
     /\ \A c \in 1..Len(reqs) : reqs[c].parent # q
     /\ reqs[q].pc = "done" => (reqs[q].status = 500 /\ reqs[q].err = "rsaDecrypt")
     /\ dernierMessageDechiffreRecu[NodeOf(q)] = NullStr

C5_Witness ==
  \E q \in RelayReqs :
     /\ WrongKey(q) /\ reqs[q].pc = "done" /\ reqs[q].err = "rsaDecrypt"
     /\ reqs[q].parent \in RelayReqs

\* C6 as stated: a relay that receives an envelope whose symmetric ciphertext
\* or IV was altered answers 500 and forwards nothing.
C6_TamperDetected ==
  \A q \in RelayReqs : reqs[q].tampered =>
     /\ reqs[q].child = 0
     /\ reqs[q].pc = "done" => reqs[q].status = 500

\* C7: when the relay at some position answers 500, every request upstream of
\* it (the hops before it and the sendMessage) still answers 200, and what the
\* upstream relays recorded stays.
C7_FailureLocal ==
  \A q \in RelayReqs : reqs[q].status = 500 =>
     \A a \in Callers(q) :
        /\ reqs[a].pc = "done" => reqs[a].status = 200
        /\ a \in RelayReqs =>
              /\ dernierMessageChiffreRecu[NodeOf(a)] = reqs[a].body
              /\ dernierMessageDechiffreRecu[NodeOf(a)] = reqs[reqs[a].child].body
              /\ derniereDestinationMessage[NodeOf(a)] = reqs[reqs[a].child].port
        /\ a \in Sends =>
              /\ dernierMessageEnvoye[reqs[a].port - BASE_USER_PORT] = reqs[a].body
              /\ Len(dernierCircuit[reqs[a].port - BASE_USER_PORT]) = CircuitLen

C7_Witness ==
  \E q \in RelayReqs : \E s \in Sends :
     /\ reqs[q].status = 500 /\ q = Hop(s, CircuitLen)
     /\ reqs[s].pc = "done" /\ reqs[s].status = 200
     /\ \A a \in Callers(q) : reqs[a].status = 200

\* C8 as stated: a relay whose next hop answered with a non-success status
\* answers with a failure.
C8_NonSuccessFails ==
  \A p \in RelayReqs :
     (/\ reqs[p].child # 0 /\ reqs[p].pc = "done"
      /\ reqs[reqs[p].child].pc = "done" /\ reqs[reqs[p].child].status # 200)
     => reqs[p].status = 500

\* C8 (amended): a relay that forwarded answers 500 exactly when the forward
\* call itself was rejected; an answer of the next hop, whatever its status,
\* yields 200.
C8_OnlyRejectionFails ==
  \A p \in RelayReqs : (reqs[p].child # 0 /\ reqs[p].pc = "done") =>
     /\ reqs[reqs[p].child].pc \in {"done", "refused"}
     /\ reqs[reqs[p].child].pc = "done" => reqs[p].status = 200
     /\ reqs[reqs[p].child].pc = "refused" => reqs[p].status = 500

C8_Witness ==
  \E p \in RelayReqs :
     /\ reqs[p].child # 0 /\ reqs[p].pc = "done" /\ reqs[p].status = 200
     /\ reqs[reqs[p].child].pc = "done" /\ reqs[reqs[p].child].status = 500

\* C9: when nothing listens at the next hop's address the relay answers 500,
\* made exactly one forward attempt, and the message goes no further.
C9_UnreachableNextHop ==
  \A p \in RelayReqs :
     (reqs[p].child # 0 /\ reqs[reqs[p].child].pc = "refused") =>
        /\ reqs[p].pc = "done" => (reqs[p].status = 500 /\ reqs[p].err = "fetch")
        /\ Cardinality({c \in 1..Len(reqs) : reqs[c].parent = p}) = 1
        /\ reqs[reqs[p].child].child = 0
        /\ reqs[reqs[p].child].status = 0
        /\ \A c \in 1..Len(reqs) : reqs[c].parent # reqs[p].child
        /\ IsUserPort(reqs[reqs[p].child].port) =>
              dernierMessageRecu[reqs[reqs[p].child].port - BASE_USER_PORT] = NullStr
        /\ IsRouterPort(reqs[reqs[p].child].port) =>
              dernierMessageChiffreRecu[NodeOf(reqs[p].child)] = NullStr

C9_Witness ==
  \E p \in RelayReqs :
     /\ reqs[p].child # 0 /\ reqs[reqs[p].child].pc = "refused"
     /\ reqs[p].pc = "done" /\ reqs[p].status = 500
     /\ IsRouterPort(reqs[reqs[p].child].port)

\* C10 as stated: once the entry relay has decrypted and issued its forward,
\* its response can be sent although the message is still on its way.
C10_ResponseBeforeDelivery ==
  \A p \in RelayReqs :
     (/\ reqs[p].parent \in Sends /\ reqs[p].pc = "fetch"
      /\ reqs[reqs[p].child].pc \in {"sent", "decrypt", "fetch"})
     => ENABLED routeurMessage_respond(p)

\* C10 (amended): a relay answers only after its forward call has settled, so
\* when a relay has answered every request downstream of it has been answered
\* or refused; its status is 200 whenever the next hop answered at all, and a
\* message that is delivered is delivered before the entry relay answers.
C10_ResponseAfterChain ==
  \A p \in RelayReqs : reqs[p].pc = "done" =>
     /\ \A q \in 1..Len(reqs) : p \in Callers(q) => reqs[q].pc \in {"done", "refused"}
     /\ (reqs[p].child # 0 /\ reqs[reqs[p].child].pc = "done") => reqs[p].status = 200
     /\ \A s \in Sends :
           (p = Hop(s, 1) /\ Hop(s, CircuitLen + 1) # 0
            /\ IsUserPort(reqs[Hop(s, CircuitLen + 1)].port)
            /\ reqs[Hop(s, CircuitLen + 1)].pc = "done")
           => dernierMessageRecu[reqs[Hop(s, CircuitLen + 1)].port - BASE_USER_PORT]
                = reqs[Hop(s, CircuitLen + 1)].body

C10_Witness ==
  \E p \in RelayReqs : \E s \in Sends :
     /\ p = Hop(s, 1) /\ reqs[p].pc = "done" /\ reqs[p].status = 200
     /\ reqs[s].pc = "fetch"
     /\ dernierMessageRecu[reqs[s].dest] = reqs[s].body

\* C11 as stated: sendMessage answers 200 only if the entry relay answered
\* 200; an unreachable entry relay or a failure answer yields 500.
C11_SenderReportsFailure ==
  \A s \in Sends : reqs[s].pc = "done" =>
     (reqs[s].status = 200 <=>
        (reqs[s].child # 0 /\ reqs[reqs[s].child].pc = "done"
         /\ reqs[reqs[s].child].status = 200))

\* C11 (amended): sendMessage answers 500 exactly when building the envelope
\* threw or the fetch to the entry relay was rejected; once the entry relay
\* has answered, with 200 or with 500, sendMessage answers 200.
C11_SenderReportsRejection ==
  \A s \in Sends : reqs[s].pc = "done" =>
     /\ reqs[s].status \in {200, 500}
     /\ reqs[s].status = 500 <=>
          (reqs[s].child = 0 \/ reqs[reqs[s].child].pc = "refused")
     /\ reqs[s].status = 200 <=>
          (reqs[s].child # 0 /\ reqs[reqs[s].child].pc = "done")

C11_Witness ==
  \E s \in Sends :
     /\ reqs[s].pc = "done" /\ reqs[s].status = 200
     /\ reqs[reqs[s].child].pc = "done" /\ reqs[reqs[s].child].status = 500

\* C12: when a relay handles envelopes of several sends at once, in whatever
\* order their handlers resume, what it forwards for an envelope is the next
\* layer of that envelope's own send, to the next node of that send's circuit
\* (for the exit node: the send's message, to the send's destination user).
C12_OwnLayerForwarded ==
  \A s \in Sends : \A k \in 1..CircuitLen :
     (Hop(s, k) # 0 /\ Hop(s, k + 1) # 0) =>
        /\ reqs[Hop(s, k + 1)].parent = Hop(s, k)
        /\ reqs[Hop(s, k + 1)].body =
             (IF k < CircuitLen THEN reqs[s].layers[CircuitLen - k] ELSE reqs[s].body)
        /\ reqs[Hop(s, k + 1)].port =
             (IF k < CircuitLen THEN RouterPort(reqs[s].circuit[k + 1].nodeId)
              ELSE UserPort(reqs[s].dest))

\* Two envelopes of different sends in flight at one relay: q arrived last
\* (the relay's last encrypted message is q's) and p resumed last (the
\* relay's last decrypted message is what p forwarded).
C12_Witness ==
  \E p, q \in RelayReqs :
     /\ p # q /\ NodeOf(p) = NodeOf(q)
     /\ reqs[p].pc = "fetch" /\ reqs[q].pc = "fetch"
     /\ reqs[p].body # reqs[q].body
     /\ reqs[reqs[p].child].port # reqs[reqs[q].child].port
     /\ dernierMessageChiffreRecu[NodeOf(p)] = reqs[q].body
     /\ dernierMessageDechiffreRecu[NodeOf(p)] = reqs[reqs[p].child].body

\* C13: a relay whose forward went to a next hop that accepts requests and
\* never answers has sent no response for that request (it is still at the
\* await of its fetch), and every other envelope at that relay can take its
\* next step: be received, or be answered once its own next hop answered (the
\* step from the decryption to the forward waits for nothing but itself).
C13_HungNextHop ==
  \A q \in RelayReqs :
     (reqs[q].child # 0 /\ reqs[reqs[q].child].port \in hung \cap up) =>
        /\ reqs[reqs[q].child].pc = "sent"
        /\ reqs[q].pc = "fetch" /\ reqs[q].status = 0
        /\ \A p \in RelayReqs \ {q} : NodeOf(p) = NodeOf(q) =>
              /\ reqs[p].pc = "sent" => ENABLED routeurMessage_start(p)
              /\ (reqs[p].pc = "fetch" /\ reqs[reqs[p].child].pc = "done")
                    => ENABLED routeurMessage_respond(p)

\* Request q waits for a user that never answers; the same relay has since
\* decrypted, forwarded and answered another envelope.
C13_Witness ==
  \E q, p \in RelayReqs :
     /\ p # q /\ NodeOf(p) = NodeOf(q)
     /\ reqs[q].pc = "fetch" /\ reqs[reqs[q].child].port \in hung
     /\ reqs[reqs[q].child].pc = "sent"
     /\ reqs[p].pc = "done" /\ reqs[p].status = 200
     /\ dernierMessageDechiffreRecu[NodeOf(p)] = reqs[reqs[p].child].body
     /\ dernierMessageRecu[NumUsers - 1] = reqs[reqs[p].child].body

\* The requests posted by a client of its own making.
DirectReqs == {q \in RelayReqs : reqs[q].parent = 0}

AddressOk ==
  /\ Len(call.adresse) = AddrLen
  /\ \A i \in 1..Len(call.adresse) : IsDigit(call.adresse[i])
  /\ call.op = "parsed" => call.destinationSuivante = call.port

\* C15 as stated: for every port the encoder computes, the address field is
\* exactly 10 decimal digits and the parse of the first 10 characters of the
\* layer returns the port.
C15_RoundTripEveryPort == call.op # "idle" => AddressOk

\* C15 (amended): the same for every port below 10^10.
C15_RoundTripTenDigits ==
  (call.op # "idle" /\ call.port[1] < 10000) => AddressOk

C15_Witness ==
  /\ call.op = "parsed"
  /\ call.port = <<9999, 999999>>
  /\ call.couche = <<57, 57, 57, 57, 57, 57, 57, 57, 57, 57, 52, 50>>
  /\ call.destinationSuivante = call.port

\* C16: the encrypted key placed in front of a layer's ciphertext is exactly
\* 344 characters long, and the split at 344 gives back exactly the encrypted
\* key and exactly the ciphertext that were concatenated.
C16_ConstantSplit ==
  /\ call.op # "idle" =>
        /\ Len(call.cleCryptee) = KeyBlobLen
        /\ call.donnees = call.cleCryptee \o call.coucheCryptee
  /\ call.op = "split" =>
        /\ call.cleChiffree = call.cleCryptee
        /\ call.contenuChiffre = call.coucheCryptee

\* The layer of the empty message has been split.
C16_Witness ==
  /\ call.op = "split"
  /\ call.clair = <<>>
  /\ Len(call.cleChiffree) = KeyBlobLen
  /\ call.contenuChiffre = call.coucheCryptee /\ call.contenuChiffre # <<>>

\* The decryptions of request q succeeded.
Decrypted(q) ==
  reqs[q].pc \in {"fetch", "done"} /\ reqs[q].err \notin {"split", "rsaDecrypt", "importSymKey", "symDecrypt"}

\* The requests made by the handler of request q.
ForwardsOf(q) == {c \in 1..Len(reqs) : reqs[c].kind = "message" /\ reqs[c].parent = q}

\* The requests to a user made on behalf of request s.
DeliveriesOf(s) ==
  {c \in 1..Len(reqs) : reqs[c].kind = "message" /\ IsUserPort(reqs[c].port)
                          /\ s \in Callers(c)}

\* C17: a relay makes at most one forward call for a request, none unless both
\* decryptions succeeded and exactly one when they did; the call goes to the
\* port parsed from the first 10 characters of the decrypted layer, with
\* exactly the characters after the 10th as its body; a sendMessage causes at
\* most one request to a user.
C17_ForwardOnce ==
  /\ \A q \in RelayReqs :
        /\ Cardinality(ForwardsOf(q)) <= 1
        /\ ~Decrypted(q) => ForwardsOf(q) = {}
        /\ Decrypted(q) =>
              /\ ForwardsOf(q) = {reqs[q].child}
              /\ reqs[reqs[q].child].port = parseInt(substring(reqs[q].plain, 0, AddrLen))
              /\ reqs[reqs[q].child].body =
                   SubSeq(reqs[q].plain, AddrLen + 1, Len(reqs[q].plain))
              /\ Len(reqs[q].plain) >= AddrLen
  /\ \A s \in Sends : Cardinality(DeliveriesOf(s)) <= 1

\* A sendMessage has answered after three relays forwarded once each and the
\* user received one request.
C17_Witness ==
  \E s \in Sends :
     /\ reqs[s].pc = "done" /\ reqs[s].status = 200
     /\ Cardinality(DeliveriesOf(s)) = 1
     /\ \A k \in 1..CircuitLen :
           /\ Decrypted(Hop(s, k))
           /\ reqs[Hop(s, k)].plain # <<>>
           /\ Cardinality(ForwardsOf(Hop(s, k))) = 1

\* The ordered triples of distinct elements of a list.
Triples(l) ==
  {<<l[u[1]], l[u[2]], l[u[3]]>> :
     u \in {v \in [1..CircuitLen -> 1..Len(l)] :
              \A a, b \in 1..CircuitLen : a # b => v[a] # v[b]}}

\* C18: for a list of at least three nodes, the call leaves its argument as
\* it was, the shuffled copy holds every node of the list exactly once, the
\* result is the first three nodes of the copy, and every ordered triple of
\* distinct nodes of the list is the result for some outcome of the draws.
C18_ShuffleCoverage ==
  Len(nodes) >= CircuitLen =>
     /\ call.op = "select" =>
           /\ nodes = call.nodes
           /\ Len(call.melanges) = Len(nodes)
           /\ \A k \in 1..Len(nodes) :
                 Cardinality({i \in 1..Len(call.melanges) : call.melanges[i] = nodes[k]}) = 1
           /\ selection[1] = SubSeq(call.melanges, 1, CircuitLen)
     /\ selection = <<>> => Triples(nodes) \subseteq Circuits(nodes)

\* A call on four nodes returned the last three of them in reverse order.
C18_Witness ==
  /\ call.op = "select" /\ Len(nodes) = CircuitLen + 1
  /\ nodes = call.nodes
  /\ selection[1] = <<nodes[4], nodes[3], nodes[2]>>
  /\ call.melanges[4] = nodes[1]

\* At least three nodes are registered, each with its own key; every
\* registered router and every user listens and answers.
Healthy ==
  /\ Len(registry) >= CircuitLen
  /\ \A i \in 1..Len(registry) :
        /\ registry[i].pubKey = exportPubKey(KeyPairOf(registry[i].nodeId))
        /\ RouterPort(registry[i].nodeId) \in up \ hung
  /\ \A u \in Users : UserPort(u) \in up \ hung

\* Request s was answered with success and the handler of its destination
\* user received a request (holding the message, when the message has no
\* unpaired surrogate).
Answered(s) ==
  /\ reqs[s].pc = "done" /\ reqs[s].status = 200
  /\ \E c \in DeliveriesOf(s) :
        /\ reqs[c].pc = "done" /\ reqs[c].port = UserPort(reqs[s].dest)
        /\ WellFormed(reqs[s].body) => reqs[c].body = reqs[s].body
        /\ dernierMessageRecu[reqs[s].dest] = reqs[c].body

\* C19: in a healthy network, a sendMessage that a client is about to post is
\* eventually answered, and its message eventually received by the
\* destination user's handler.
C19_Progress ==
  (Healthy /\ clients # <<>>) ~> (\E s \in Sends : Answered(s))

\* The supplementary-character message has been answered and received.
C19_Witness ==
  /\ Healthy
  /\ \E s \in Sends : Answered(s) /\ reqs[s].body = <<55357, 56832>>

\* C20: at every relay, the last decrypted message and the last destination
\* are the payload and the next-hop port of the decrypted layer of one request
\* of that relay; both are null as long as no request of the relay was
\* decrypted.
C20_DiagnosticsPaired ==
  \A n \in Relays :
     IF \A q \in RelayReqs : NodeOf(q) = n => ~Decrypted(q)
     THEN /\ dernierMessageDechiffreRecu[n] = NullStr
          /\ derniereDestinationMessage[n] = NullInt
     ELSE \E q \in RelayReqs :
             /\ NodeOf(q) = n /\ Decrypted(q)
             /\ derniereDestinationMessage[n] = parseInt(substring(reqs[q].plain, 0, AddrLen))
             /\ dernierMessageDechiffreRecu[n] =
                  substring(reqs[q].plain, AddrLen, Len(reqs[q].plain))

\* A relay decrypted two envelopes with different next hops: p arrived last,
\* q was decrypted last and has been answered.
C20_Witness ==
  \E p, q \in RelayReqs :
     /\ p # q /\ NodeOf(p) = NodeOf(q)
     /\ Decrypted(p) /\ reqs[q].pc = "done" /\ reqs[q].status = 200
     /\ reqs[reqs[p].child].port # reqs[reqs[q].child].port
     /\ dernierMessageChiffreRecu[NodeOf(p)] = reqs[p].body
     /\ derniereDestinationMessage[NodeOf(q)] = reqs[reqs[q].child].port
     /\ dernierMessageDechiffreRecu[NodeOf(q)] = reqs[reqs[q].child].body

DecryptionErrors == {"rsaDecrypt", "importSymKey", "symDecrypt"}

\* C21: the step in which a relay receives an envelope sets its last
\* encrypted message to that envelope; the step in which a decryption of the
\* envelope fails answers 500, leaves the relay's last decrypted message and
\* last destination (and last encrypted message) as they were, and makes no
\* request.
C21_FailureFrame ==
  [][\A r \in 1..Len(reqs) :
        (reqs[r].kind = "message" /\ IsRouterPort(reqs[r].port)) =>
           /\ (reqs[r].pc = "sent" /\ reqs'[r].pc # "sent") =>
                 dernierMessageChiffreRecu'[NodeOf(r)] = reqs[r].body
           /\ (reqs[r].pc = "decrypt" /\ reqs'[r].pc = "done"
                /\ reqs'[r].err \in DecryptionErrors) =>
                 /\ reqs'[r].status = 500 /\ reqs'[r].child = 0
                 /\ dernierMessageDechiffreRecu' = dernierMessageDechiffreRecu
                 /\ derniereDestinationMessage' = derniereDestinationMessage
                 /\ dernierMessageChiffreRecu' = dernierMessageChiffreRecu
                 /\ \A c \in 1..Len(reqs) : reqs'[c].kind = reqs[c].kind
                 /\ Len(reqs') = Len(reqs)]_vars

\* A relay that had decrypted and forwarded the send's envelope then failed
\* at the symmetric decryption of a cut envelope: its last encrypted message
\* is the cut envelope, its last decrypted message and destination are still
\* those of the send.
C21_Witness ==
  \E q, p \in RelayReqs :
     /\ NodeOf(q) = NodeOf(p) /\ reqs[p].parent # 0 /\ Decrypted(p)
     /\ reqs[q].parent = 0 /\ reqs[q].pc = "done" /\ reqs[q].err = "symDecrypt"
     /\ reqs[q].child = 0
     /\ dernierMessageChiffreRecu[NodeOf(q)] = reqs[q].body
     /\ dernierMessageDechiffreRecu[NodeOf(q)] = reqs[reqs[p].child].body
     /\ derniereDestinationMessage[NodeOf(q)] = reqs[reqs[p].child].port

\* C22: with fewer than three nodes in the registry, a sendMessage makes no
\* request to any relay (no relay receives anything) and, once it has
\* answered, has answered with the failure response.
C22_ShortRegistryFails ==
  Len(registry) < CircuitLen =>
     /\ \A q \in 1..Len(reqs) : reqs[q].kind # "message"
     /\ \A n \in Relays : dernierMessageChiffreRecu[n] = NullStr
     /\ \A s \in Sends :
           /\ reqs[s].child = 0 /\ reqs[s].layers = <<>>
           /\ reqs[s].pc \in {"registry", "done"}
           /\ reqs[s].pc = "done" => (reqs[s].status = 500 /\ reqs[s].err = "build")

\* A sendMessage over a registry of two nodes has answered 500; the two
\* selected nodes are recorded as its circuit.
C22_Witness ==
  /\ Len(registry) = CircuitLen - 1
  /\ \E s \in Sends :
        /\ reqs[s].pc = "done" /\ reqs[s].status = 500
        /\ Len(reqs[s].circuit) = CircuitLen - 1
        /\ Len(dernierCircuit[reqs[s].port - BASE_USER_PORT]) = CircuitLen - 1
        /\ dernierMessageEnvoye[reqs[s].port - BASE_USER_PORT] = reqs[s].body

====
